---- MODULE Spec2Model ----
(***************************************************************************)
(* The constraint-satisfaction notebook                                    *)
(* Week2/constraint_satisfaction/AIND-Constraint_Satisfaction.ipynb, run   *)
(* once from its first code cell to its last.  The state is the Python     *)
(* globals the cells bind (the four solvers, solutions, runtimes), the     *)
(* position in the notebook and in the loop of the running cell, and what  *)
(* the cell that ran last printed.                                         *)
(*                                                                         *)
(* A Z3 integer constant is modelled by its name (Int('T') is "T"), an     *)
(* assertion by a record holding the operator of the Python expression     *)
(* that built it, and a Solver by its list of assertions, in the order     *)
(* they were added, with the answer of its last check().                   *)
(***************************************************************************)
EXTENDS Integers, Sequences, FiniteSets, TLC

VARIABLES pc, ca_solver, mc_solver, nq_solver, s_solver,
          heap, solutions, runtimes, li, lj, out

vars == <<pc, ca_solver, mc_solver, nq_solver, s_solver,
          heap, solutions, runtimes, li, lj, out>>

(***************************************************************************)
(* Bound of the model.  Z3 integers are unbounded; the assignments tried   *)
(* against a solver's assertions take their values in Dom, which reaches   *)
(* Slack below the smallest and Slack above the largest bound the cells    *)
(* register (0 and 9).                                                     *)
(***************************************************************************)
Slack == 1

Dom == (0 - Slack)..(9 + Slack)

(***************************************************************************)
(* Assertions.                                                             *)
(***************************************************************************)
\* 0 <= x, 1 <= x : Python evaluates int <= ArithRef as x >= int
Ge(x, n) == [op |-> "ge", vs |-> <<x>>, n |-> n]
\* x <= 9
Le(x, n) == [op |-> "le", vs |-> <<x>>, n |-> n]
\* F != 0
Ne(x, n) == [op |-> "ne", vs |-> <<x>>, n |-> n]
\* boxes[row][column] == board[row][column]
Eq(x, n) == [op |-> "eq", vs |-> <<x>>, n |-> n]
\* rT != rT2
Neq(x, y) == [op |-> "neq", vs |-> <<x, y>>, n |-> 0]
\* Distinct(var_list)
Distinct(xs) == [op |-> "distinct", vs |-> xs, n |-> 0]
\* Abs(queen1 - queen2) != abs(i - j)
AbsNe(x, y, n) == [op |-> "absne", vs |-> <<x, y>>, n |-> n]
\* sum of (x + y) * k terms == sum of x * k terms
SumEq(xs, lhs, rhs) == [op |-> "sumeq", vs |-> xs, lhs |-> lhs, rhs |-> rhs]

\* def Abs(x): return If(x >= 0, x, -x)
Abs(x) == IF x >= 0 THEN x ELSE -x

RECURSIVE SumPairs(_, _)
SumPairs(ts, a) ==
    IF ts = <<>> THEN 0
    ELSE (a[ts[1][1]] + a[ts[1][2]]) * ts[1][3] + SumPairs(Tail(ts), a)

RECURSIVE SumTerms(_, _)
SumTerms(ts, a) ==
    IF ts = <<>> THEN 0
    ELSE a[ts[1][1]] * ts[1][2] + SumTerms(Tail(ts), a)

\* The value of assertion c under the assignment a of integers to names.
Holds(c, a) ==
    CASE c.op = "ge" -> a[c.vs[1]] >= c.n
      [] c.op = "le" -> a[c.vs[1]] <= c.n
      [] c.op = "ne" -> a[c.vs[1]] # c.n
      [] c.op = "eq" -> a[c.vs[1]] = c.n
      [] c.op = "neq" -> a[c.vs[1]] # a[c.vs[2]]
      [] c.op = "distinct" ->
            \A i \in DOMAIN c.vs : \A j \in DOMAIN c.vs :
                i < j => a[c.vs[i]] # a[c.vs[j]]
      [] c.op = "absne" -> Abs(a[c.vs[1]] - a[c.vs[2]]) # c.n
      [] c.op = "sumeq" -> SumPairs(c.lhs, a) = SumTerms(c.rhs, a)

HoldsAll(asserts, a) == \A i \in DOMAIN asserts : Holds(asserts[i], a)

(***************************************************************************)
(* Solver.check(): the assignments of values in Dom to the names that      *)
(* satisfy every assertion, found by giving the names values one after     *)
(* the other and dropping a partial assignment as soon as an assertion     *)
(* over the names it covers is false.                                      *)
(***************************************************************************)
Mentions(c, x) == \E i \in DOMAIN c.vs : c.vs[i] = x

Over(c, S) == \A i \in DOMAIN c.vs : c.vs[i] \in S

\* The sequence f with its elements evaluated once, not at every use.
List(f) == SelectSeq(f, LAMBDA e : TRUE)

\* The assertion c over positions in names instead of names, so that a
\* tuple of values, one per name, is an assignment for it.
Pos(names, y) == CHOOSE i \in DOMAIN names : names[i] = y

AtPos(c, names) ==
    IF c.op = "sumeq"
    THEN [c EXCEPT !.vs = [i \in DOMAIN c.vs |-> Pos(names, c.vs[i])],
                   !.lhs = [i \in DOMAIN c.lhs |->
                                <<Pos(names, c.lhs[i][1]), Pos(names, c.lhs[i][2]),
                                  c.lhs[i][3]>>],
                   !.rhs = [i \in DOMAIN c.rhs |->
                                <<Pos(names, c.rhs[i][1]), c.rhs[i][2]>>]]
    ELSE [c EXCEPT !.vs = [i \in DOMAIN c.vs |-> Pos(names, c.vs[i])]]

\* The values of Dom that the bounds and the other assertions on the name
\* x alone leave to it.
Allowed(asserts, x) ==
    {v \in Dom : \A i \in DOMAIN asserts :
        (Len(asserts[i].vs) = 1 /\ asserts[i].vs[1] = x)
            => Holds(asserts[i], x :> v)}

Least(S) == CHOOSE m \in S : \A n \in S : m <= n

Greatest(S) == CHOOSE m \in S : \A n \in S : m >= n

\* Can the two sides of the equation e still meet, its names taking values
\* between those of the tuples low and high?  (Decided for factors >= 0.)
Feasible(e, low, high) ==
    ((\A i \in DOMAIN e.lhs : e.lhs[i][3] >= 0) /\ (\A i \in DOMAIN e.rhs : e.rhs[i][2] >= 0))
        => /\ SumPairs(e.lhs, low) <= SumTerms(e.rhs, high)
           /\ SumTerms(e.rhs, low) <= SumPairs(e.lhs, high)

\* names[k] gets each value left to it that keeps the tuple p of values
\* of names[1..k-1] consistent: it differs from the values of the earlier
\* names that share a Distinct with it, every assertion over the names up
\* to names[k] that mentions it holds, and every equation can still be met
\* by the names that follow.
RECURSIVE Extend(_, _, _, _)
Extend(asserts, names, k, partials) ==
    IF partials = {} \/ k > Len(names) THEN partials
    ELSE LET x == names[k]
             seen == {names[i] : i \in 1..k}
             vals == Allowed(asserts, x)
             sel == SelectSeq(asserts,
                        LAMBDA c : c.op # "distinct" /\ Len(c.vs) > 1
                                   /\ Mentions(c, x) /\ Over(c, seen))
             rel == List([i \in DOMAIN sel |-> AtPos(sel[i], names)])
             dis == SelectSeq(asserts,
                        LAMBDA c : c.op = "distinct" /\ Mentions(c, x))
             prior == List([i \in DOMAIN dis |->
                        {j \in 1..(k - 1) : Mentions(dis[i], names[j])}])
             open == SelectSeq(asserts,
                        LAMBDA c : c.op = "sumeq" /\ Over(c, {names[i] : i \in DOMAIN names}))
             eqs == List([i \in DOMAIN open |-> AtPos(open[i], names)])
             rest == {i \in DOMAIN names : i > k}
             lows == List([i \in 1..(Len(names) - k) |->
                        Least(Allowed(asserts, names[k + i]))])
             highs == List([i \in 1..(Len(names) - k) |->
                        Greatest(Allowed(asserts, names[k + i]))])
             ok(p, v) ==
                /\ \A i \in DOMAIN dis : \A j \in prior[i] : p[j] # v
                /\ LET q == Append(p, v)
                   IN  /\ \A i \in DOMAIN rel : Holds(rel[i], q)
                       /\ \A i \in DOMAIN eqs : Feasible(eqs[i], q \o lows, q \o highs)
             next == IF \E i \in rest : Allowed(asserts, names[i]) = {}
                     THEN {}
                     ELSE UNION {{Append(p, v) : v \in {w \in vals : ok(p, w)}} :
                                    p \in partials}
         IN  Extend(asserts, names, k + 1, next)

\* The assignments of values in Dom to names that satisfy every assertion.
Models(asserts, names) ==
    LET named(t) == [y \in {names[i] : i \in DOMAIN names} |-> t[Pos(names, y)]]
    IN  {m \in {named(t) : t \in Extend(asserts, names, 1, {<<>>})} :
            HoldsAll(asserts, m)}

\* A Distinct over more names than there are values left to them has no
\* satisfying assignment.
Pigeonhole(asserts) ==
    \E i \in DOMAIN asserts :
        /\ asserts[i].op = "distinct"
        /\ LET c == asserts[i]
               xs == {c.vs[j] : j \in DOMAIN c.vs}
           IN  /\ Cardinality(xs) = Len(c.vs)
               /\ Cardinality(UNION {Allowed(asserts, x) : x \in xs}) < Len(c.vs)

\* check() on a solver holding asserts over names: the answer, and the
\* assignments model() may return after it.
check(asserts, names) ==
    LET ms == IF Pigeonhole(asserts) THEN {} ELSE Models(asserts, names)
    IN  [r |-> IF ms # {} THEN "sat" ELSE "unsat", ms |-> ms]

\* check() on a solver over names too many to enumerate: the assignments
\* of cands that satisfy every assertion.
checkAmong(asserts, cands) ==
    LET ms == {g \in cands : HoldsAll(asserts, g)}
    IN  [r |-> IF ms # {} THEN "sat" ELSE "unsat", ms |-> ms]

Solver == [assertions |-> <<>>, status |-> "new"]

Unbound == [assertions |-> <<>>, status |-> "unbound"]

\* s.add(c1, c2, ...)
add(s, cs) == [s EXCEPT !.assertions = @ \o cs]

\* The solvers nqueens() builds are reached through two names, nq_solver
\* and the list solutions: heap holds them in the order they were built,
\* and a reference to one is its index in heap, 0 while the name is not
\* bound.
Deref(ref) == IF ref = 0 THEN Unbound ELSE heap[ref]

(***************************************************************************)
(* I. Cryptarithmetic                                                      *)
(***************************************************************************)
Letters == <<"F", "O", "R", "T", "U", "W">>

\* A variant of the ranges below without the last of them, W <= 9.
Cell5AddsWithoutLast ==
    [k \in 1..(2 * Len(Letters) - 1) |->
        IF k % 2 = 1 THEN Ge(Letters[(k + 1) \div 2], 0)
                     ELSE Le(Letters[k \div 2], 9)]

\* ca_solver.add(0 <= F, F <= 9) and the same for O, R, T, U, W
Cell5Adds ==
    [k \in 1..(2 * Len(Letters)) |->
        IF k % 2 = 1 THEN Ge(Letters[(k + 1) \div 2], 0)
                     ELSE Le(Letters[k \div 2], 9)]

\* A variant of the cell below that forgets the Distinct.
Cell7AddsNoDistinct == <<Ne("F", 0), Ne("T", 0)>>

\* ca_solver.add(F!=0, T !=0 ); ca_solver.add(Distinct([F, O, R, T, U, W]))
Cell7Adds == <<Ne("F", 0), Ne("T", 0), Distinct(<<"F", "O", "R", "T", "U", "W">>)>>

\* A variant of the equation below with the factors of O and U exchanged
\* on the right-hand side.
Cell9AddsSwapped ==
    <<SumEq(<<"T", "W", "O", "F", "U", "R">>,
            <<<<"T", "T", 100>>, <<"W", "W", 10>>, <<"O", "O", 1>>>>,
            <<<<"F", 1000>>, <<"O", 10>>, <<"U", 100>>, <<"R", 1>>>>)>>

\* (T+T)*1e2+(W+W)*1e1 + (O+O)*1e0 == F *1e3 + O * 1e2 + U*1e1 + R*1e0
\* (a Python float factor becomes the Z3 real numeral of the same value)
Cell9Adds ==
    <<SumEq(<<"T", "W", "O", "F", "U", "R">>,
            <<<<"T", "T", 100>>, <<"W", "W", 10>>, <<"O", "O", 1>>>>,
            <<<<"F", 1000>>, <<"O", 100>>, <<"U", 10>>, <<"R", 1>>>>)>>

(***************************************************************************)
(* II. Map coloring                                                        *)
(***************************************************************************)
Regions == <<"WA", "SA", "NT", "Q", "NSW", "V", "T">>

colors == ("0" :> "Blue") @@ ("1" :> "Red") @@ ("2" :> "Green")

\* A variant of the ranges below with two colors, 0 and 1.
Cell15AddsTwoColors ==
    [k \in 1..14 |->
        IF k % 2 = 1
        THEN Ge(<<"WA", "SA", "NT", "Q", "NSW", "V", "T">>[(k + 1) \div 2], 0)
        ELSE Le(<<"WA", "SA", "NT", "Q", "NSW", "V", "T">>[k \div 2], 1)]

\* mc_solver.add(0 <= WA, WA <= 2) and the same for the six other regions
Cell15Adds ==
    [k \in 1..(2 * Len(Regions)) |->
        IF k % 2 = 1 THEN Ge(Regions[(k + 1) \div 2], 0)
                     ELSE Le(Regions[k \div 2], 2)]

\* A variant of the dict below that leaves out the border of SA and Q.
adjacentWithoutSAQ ==
    << <<"WA", <<"NT", "SA">>>>,
       <<"NT", <<"WA", "SA", "Q">>>>,
       <<"SA", <<"WA", "NT", "V", "NSW">>>>,
       <<"Q", <<"NT", "NSW">>>>,
       <<"NSW", <<"Q", "SA", "V">>>>,
       <<"V", <<"SA", "NSW">>>> >>

\* the dict adjacent, in insertion order
adjacent ==
    << <<"WA", <<"NT", "SA">>>>,
       <<"NT", <<"WA", "SA", "Q">>>>,
       <<"SA", <<"WA", "NT", "Q", "V", "NSW">>>>,
       <<"Q", <<"NT", "SA", "NSW">>>>,
       <<"NSW", <<"Q", "SA", "V">>>>,
       <<"V", <<"SA", "NSW">>>> >>

(***************************************************************************)
(* III. N-Queens                                                           *)
(***************************************************************************)
sizes == <<8, 16, 32, 64>>

\* queens = [Int('Q{}'.format(ii)) for ii in range(N)]
queens(N) == [k \in 1..N |-> "Q" \o ToString(k - 1)]

\* chain(*[(0 <= n, n <= 9) for n in queens])
QueenRange(N) ==
    LET qs == queens(N)
    IN  [k \in 1..(2 * N) |->
            IF k % 2 = 1 THEN Ge(qs[(k + 1) \div 2], 0)
                         ELSE Le(qs[k \div 2], 9)]

\* the double loop over enumerate(queens), skipping i == j
QueenDiagonals(N) ==
    LET qs == queens(N)
    IN  [k \in 1..(N * (N - 1)) |->
            LET i == (k - 1) \div (N - 1)
                r == (k - 1) % (N - 1)
                j == IF r < i THEN r ELSE r + 1
            IN  AbsNe(qs[i + 1], qs[j + 1], Abs(i - j))]

nqueens(N) ==
    add(add(add(Solver, QueenRange(N)), <<Distinct(queens(N))>>), QueenDiagonals(N))

(***************************************************************************)
(* IV. Sudoku                                                              *)
(***************************************************************************)
rows == <<"A", "B", "C", "D", "E", "F", "G", "H", "I">>

cols == <<"1", "2", "3", "4", "5", "6", "7", "8", "9">>

\* boxes[r][c], r and c counted from 0 as in Python
boxes(r, c) == rows[r + 1] \o cols[c + 1]

\* chain(*boxes)
AllBoxes == [k \in 1..81 |-> boxes((k - 1) \div 9, (k - 1) % 9)]

\* A variant of the ranges below that starts at 0, as the ranges of the
\* other puzzles do.
BoxRangeFromZero ==
    [k \in 1..162 |->
        IF k % 2 = 1 THEN Ge(AllBoxes[(k + 1) \div 2], 0)
                     ELSE Le(AllBoxes[k \div 2], 9)]

\* chain(*[(1 <= box, box <=9) for box in chain(*boxes)])
BoxRange ==
    [k \in 1..162 |->
        IF k % 2 = 1 THEN Ge(AllBoxes[(k + 1) \div 2], 1)
                     ELSE Le(AllBoxes[k \div 2], 9)]

\* [Distinct(row) for row in boxes]
RowDistinct == [r \in 1..9 |-> Distinct([c \in 1..9 |-> boxes(r - 1, c - 1)])]

\* [Distinct(column) for column in zip(*boxes)]
ColDistinct == [c \in 1..9 |-> Distinct([r \in 1..9 |-> boxes(r - 1, c - 1)])]

\* Distinct([*chain(boxes[a][b:b+3], boxes[a+1][b:b+3], boxes[a+2][b:b+3])])
BlockDistinct(a, b) ==
    Distinct([k \in 1..9 |-> boxes(a + ((k - 1) \div 3), b + ((k - 1) % 3))])

\* the active board, "hardest sudoku puzzles"; 0 is a blank
board ==
    << <<8, 0, 0, 0, 0, 0, 0, 0, 0>>,
       <<0, 0, 3, 6, 0, 0, 0, 0, 0>>,
       <<0, 7, 0, 0, 9, 0, 2, 0, 0>>,
       <<0, 5, 0, 0, 0, 7, 0, 0, 0>>,
       <<0, 0, 0, 0, 4, 5, 7, 0, 0>>,
       <<0, 0, 0, 1, 0, 0, 0, 3, 0>>,
       <<0, 0, 1, 0, 0, 0, 0, 6, 8>>,
       <<0, 0, 8, 5, 0, 0, 0, 1, 0>>,
       <<0, 9, 0, 0, 0, 0, 4, 0, 0>> >>

\* board[row][column], counted from 0
BoardAt(row, column) == board[row + 1][column + 1]

\* for a in [0,3,6]: for b in [0,3,6]:
BlockStarts == <<0, 3, 6>>

\* The boxes in the order the cell prints them, one line per row of the
\* grid, as names.
GridLines(m) == [r \in 1..9 |-> [c \in 1..9 |-> m[boxes(r - 1, c - 1)]]]

\* The grid printed under the check cell of the notebook as committed.
RecordedGrid ==
    << <<8, 1, 2, 7, 5, 3, 6, 4, 9>>,
       <<9, 4, 3, 6, 8, 2, 1, 7, 5>>,
       <<6, 7, 5, 4, 9, 1, 2, 8, 3>>,
       <<1, 5, 4, 2, 3, 7, 8, 9, 6>>,
       <<3, 6, 9, 8, 4, 5, 7, 2, 1>>,
       <<2, 8, 7, 1, 6, 9, 5, 3, 4>>,
       <<5, 2, 1, 9, 7, 4, 3, 6, 8>>,
       <<4, 3, 8, 5, 2, 6, 9, 1, 7>>,
       <<7, 9, 6, 3, 1, 8, 4, 5, 2>> >>

BoxNames == {AllBoxes[k] : k \in 1..81}

\* the row and the column (from 0) of the box named x
RowOf(x) == (Pos(AllBoxes, x) - 1) \div 9

ColOf(x) == (Pos(AllBoxes, x) - 1) % 9

\* The assignment of the boxes that the grid g (a tuple of rows) displays.
AsBoxes(g) == [x \in BoxNames |-> g[RowOf(x) + 1][ColOf(x) + 1]]

Recorded == AsBoxes(RecordedGrid)

\* The 81 boxes are too many for Models: check() on s_solver tries the
\* recorded grid and the grids near it: one box given another value of
\* Dom, two rows exchanged, two columns exchanged, two boxes of a row or
\* of a column exchanged.
OneBox == {[Recorded EXCEPT ![x] = v] : x \in BoxNames, v \in Dom}

Swap(g, x, y) == [g EXCEPT ![x] = g[y], ![y] = g[x]]

TwoBoxes ==
    {Swap(Recorded, x, y) : <<x, y>> \in
        {xy \in BoxNames \X BoxNames :
            RowOf(xy[1]) = RowOf(xy[2]) \/ ColOf(xy[1]) = ColOf(xy[2])}}

TwoRows ==
    {AsBoxes([r \in 1..9 |-> RecordedGrid[IF r = i THEN j ELSE IF r = j THEN i ELSE r]]) :
        i \in 1..9, j \in 1..9}

TwoCols ==
    {AsBoxes([r \in 1..9 |-> [c \in 1..9 |->
                RecordedGrid[r][IF c = i THEN j ELSE IF c = j THEN i ELSE c]]]) :
        i \in 1..9, j \in 1..9}

Grids == OneBox \cup TwoBoxes \cup TwoRows \cup TwoCols

(***************************************************************************)
(* The run of the notebook, cell by cell.                                  *)
(***************************************************************************)
NoOutput == [cell |-> "", lines |-> <<>>]

\* bool(x) of a CheckSatResult: the class defines neither __bool__ nor
\* __len__, so every instance is true
Truthy(r) == r \in {"sat", "unsat", "unknown"}

Init ==
    /\ pc = "c5"
    /\ ca_solver = Unbound
    /\ mc_solver = Unbound
    /\ nq_solver = 0
    /\ s_solver = Unbound
    /\ heap = <<>>
    /\ solutions = <<>>
    /\ runtimes = <<>>
    /\ li = 0
    /\ lj = 0
    /\ out = NoOutput

\* ca_solver = Solver(); the six letters and their ranges
Cell5 ==
    /\ pc = "c5"
    /\ ca_solver' = add(Solver, Cell5Adds)
    /\ out' = NoOutput
    /\ pc' = "c7"
    /\ UNCHANGED <<mc_solver, nq_solver, s_solver, heap, solutions, runtimes, li, lj>>

\* leading digits and Distinct
Cell7 ==
    /\ pc = "c7"
    /\ ca_solver' = add(ca_solver, Cell7Adds)
    /\ out' = NoOutput
    /\ pc' = "c9"
    /\ UNCHANGED <<mc_solver, nq_solver, s_solver, heap, solutions, runtimes, li, lj>>

\* the equation
Cell9 ==
    /\ pc = "c9"
    /\ ca_solver' = add(ca_solver, Cell9Adds)
    /\ out' = NoOutput
    /\ pc' = "c10"
    /\ UNCHANGED <<mc_solver, nq_solver, s_solver, heap, solutions, runtimes, li, lj>>

\* assert ca_solver.check() == sat, then the three lines from model()
Cell10 ==
    /\ pc = "c10"
    /\ \E res \in {check(ca_solver.assertions, Letters)} :
           /\ ca_solver' = [ca_solver EXCEPT !.status = res.r]
           /\ IF res.r = "sat"
              THEN \E m \in res.ms :
                    /\ out' = [cell |-> "c10",
                               lines |-> << <<m["T"], m["W"], m["O"]>>,
                                            <<m["T"], m["W"], m["O"]>>,
                                            <<m["F"], m["O"], m["U"], m["R"]>> >>]
                    /\ pc' = "c13"
              ELSE /\ out' = NoOutput
                   /\ pc' = "AssertionError"
    /\ UNCHANGED <<mc_solver, nq_solver, s_solver, heap, solutions, runtimes, li, lj>>

\* A variant of the cell below that binds mc_solver to the solver of the
\* section before in place of a new one.
Cell13SameSolver ==
    /\ pc = "c13"
    /\ mc_solver' = ca_solver
    /\ out' = NoOutput
    /\ pc' = "c15"
    /\ UNCHANGED <<ca_solver, nq_solver, s_solver, heap, solutions, runtimes, li, lj>>

\* mc_solver = Solver(); colors
Cell13 ==
    /\ pc = "c13"
    /\ mc_solver' = Solver
    /\ out' = NoOutput
    /\ pc' = "c15"
    /\ UNCHANGED <<ca_solver, nq_solver, s_solver, heap, solutions, runtimes, li, lj>>

\* A variant of the cell below that adds the ranges to ca_solver, the
\* solver of the section before, in place of mc_solver.
Cell15OnCaSolver ==
    /\ pc = "c15"
    /\ ca_solver' = add(ca_solver, Cell15Adds)
    /\ out' = NoOutput
    /\ pc' = "c17"
    /\ UNCHANGED <<mc_solver, nq_solver, s_solver, heap, solutions, runtimes, li, lj>>

\* the seven regions and their ranges
Cell15 ==
    /\ pc = "c15"
    /\ mc_solver' = add(mc_solver, Cell15Adds)
    /\ out' = NoOutput
    /\ pc' = "c17"
    /\ UNCHANGED <<ca_solver, nq_solver, s_solver, heap, solutions, runtimes, li, lj>>

\* one turn of: for rT in adjacent: for rT2 in adjacent[rT]:
\*                  mc_solver.add(rT!=rT2)
\* li, lj count the turns done of the outer and of the inner loop
Cell17 ==
    /\ pc = "c17"
    /\ LET rT == adjacent[li + 1][1]
           rT2 == adjacent[li + 1][2][lj + 1]
           lastInner == lj + 1 = Len(adjacent[li + 1][2])
           lastOuter == li + 1 = Len(adjacent)
       IN  /\ mc_solver' = add(mc_solver, <<Neq(rT, rT2)>>)
           /\ lj' = IF lastInner THEN 0 ELSE lj + 1
           /\ li' = IF lastInner THEN (IF lastOuter THEN 0 ELSE li + 1) ELSE li
           /\ pc' = IF lastInner /\ lastOuter THEN "c18" ELSE "c17"
    /\ out' = NoOutput
    /\ UNCHANGED <<ca_solver, nq_solver, s_solver, heap, solutions, runtimes>>

\* assert mc_solver.check() == sat, then colors[model()[r].as_string()]
\* for WA, NT, SA, Q, NSW, V, T
Cell18 ==
    /\ pc = "c18"
    /\ \E res \in {check(mc_solver.assertions, Regions)} :
       LET order == <<"WA", "NT", "SA", "Q", "NSW", "V", "T">>
       IN  /\ mc_solver' = [mc_solver EXCEPT !.status = res.r]
           /\ IF res.r = "sat"
              THEN \E m \in res.ms :
                    IF \A i \in DOMAIN order : ToString(m[order[i]]) \in DOMAIN colors
                    THEN /\ out' = [cell |-> "c18",
                                    lines |-> [i \in DOMAIN order |->
                                        <<order[i], colors[ToString(m[order[i]])]>>]]
                         /\ pc' = "c21"
                    ELSE /\ out' = NoOutput
                         /\ pc' = "KeyError"
              ELSE /\ out' = NoOutput
                   /\ pc' = "AssertionError"
    /\ UNCHANGED <<ca_solver, nq_solver, s_solver, heap, solutions, runtimes, li, lj>>

\* def Abs, def nqueens
Cell21 ==
    /\ pc = "c21"
    /\ out' = NoOutput
    /\ pc' = "c22"
    /\ UNCHANGED <<ca_solver, mc_solver, nq_solver, s_solver, heap, solutions,
                   runtimes, li, lj>>

\* runtimes = []; solutions = []; sizes = [8, 16, 32, 64]
Cell22 ==
    /\ pc = "c22"
    /\ runtimes' = <<>>
    /\ solutions' = <<>>
    /\ li' = 0
    /\ out' = [cell |-> "c22", lines |-> <<>>]
    /\ pc' = "c22_for"
    /\ UNCHANGED <<ca_solver, mc_solver, nq_solver, s_solver, heap, lj>>

\* one turn of: for N in sizes; after the last, plt.plot(sizes, runtimes).
\* A runtime is recorded as the size it was measured for.
Cell22For ==
    /\ pc = "c22_for"
    /\ IF li < Len(sizes)
       THEN \E N \in {sizes[li + 1]} :
            \E s \in {nqueens(N)} :
            \E res \in {check(s.assertions, queens(N))} :
                /\ heap' = Append(heap, [s EXCEPT !.status = res.r])
                /\ nq_solver' = Len(heap')
                /\ IF Truthy(res.r)
                   THEN /\ out' = [out EXCEPT !.lines = Append(@, N)]
                        /\ runtimes' = Append(runtimes, N)
                        /\ solutions' = Append(solutions, nq_solver')
                        /\ li' = li + 1
                        /\ pc' = "c22_for"
                   ELSE /\ pc' = "AssertionError"
                        /\ UNCHANGED <<out, runtimes, heap, solutions, li>>
       ELSE /\ li' = 0
            /\ pc' = "c25"
            /\ UNCHANGED <<nq_solver, heap, out, runtimes, solutions>>
    /\ UNCHANGED <<ca_solver, mc_solver, s_solver, lj>>

\* rows, cols, boxes; s_solver = Solver()
Cell25 ==
    /\ pc = "c25"
    /\ s_solver' = Solver
    /\ out' = NoOutput
    /\ pc' = "c26"
    /\ UNCHANGED <<ca_solver, mc_solver, nq_solver, heap, solutions, runtimes, li, lj>>

\* prints the names of the boxes of each block
Cell26 ==
    /\ pc = "c26"
    /\ out' = [cell |-> "c26",
               lines |-> [k \in 1..9 |->
                    BlockDistinct(BlockStarts[((k - 1) \div 3) + 1],
                                  BlockStarts[((k - 1) % 3) + 1]).vs]]
    /\ pc' = "c28"
    /\ UNCHANGED <<ca_solver, mc_solver, nq_solver, s_solver, heap, solutions,
                   runtimes, li, lj>>

\* the ranges, the rows and the columns
Cell28 ==
    /\ pc = "c28"
    /\ s_solver' = add(add(add(s_solver, BoxRange), RowDistinct), ColDistinct)
    /\ li' = 0
    /\ lj' = 0
    /\ out' = NoOutput
    /\ pc' = "c28_for"
    /\ UNCHANGED <<ca_solver, mc_solver, nq_solver, heap, solutions, runtimes>>

\* one turn of: for a in [0,3,6]: for b in [0,3,6]: s_solver.add(Distinct(...))
Cell28For ==
    /\ pc = "c28_for"
    /\ LET a == BlockStarts[li + 1]
           b == BlockStarts[lj + 1]
           lastInner == lj + 1 = Len(BlockStarts)
           lastOuter == li + 1 = Len(BlockStarts)
       IN  /\ s_solver' = add(s_solver, <<BlockDistinct(a, b)>>)
           /\ lj' = IF lastInner THEN 0 ELSE lj + 1
           /\ li' = IF lastInner THEN (IF lastOuter THEN 0 ELSE li + 1) ELSE li
           /\ pc' = IF lastInner /\ lastOuter THEN "c30" ELSE "c28_for"
    /\ out' = NoOutput
    /\ UNCHANGED <<ca_solver, mc_solver, nq_solver, heap, solutions, runtimes>>

\* A variant of the hint below without its test of the board.
HintEveryCell(row, column) == <<Eq(boxes(row, column), BoardAt(row, column))>>

\* if board[row][column] != 0:
\*     s_solver.add(boxes[row][column] == board[row][column])
Hint(row, column) ==
    IF BoardAt(row, column) # 0
    THEN <<Eq(boxes(row, column), BoardAt(row, column))>>
    ELSE <<>>

\* one turn of: for row in range(9): for column in range(9): the hint
Cell30 ==
    /\ pc = "c30"
    /\ LET row == li
           column == lj
           lastInner == lj + 1 = 9
           lastOuter == li + 1 = 9
       IN  /\ s_solver' = add(s_solver, Hint(row, column))
           /\ lj' = IF lastInner THEN 0 ELSE lj + 1
           /\ li' = IF lastInner THEN (IF lastOuter THEN 0 ELSE li + 1) ELSE li
           /\ pc' = IF lastInner /\ lastOuter THEN "c31" ELSE "c30"
    /\ out' = NoOutput
    /\ UNCHANGED <<ca_solver, mc_solver, nq_solver, heap, solutions, runtimes>>

\* assert s_solver.check() == sat, then the grid from model()
Cell31 ==
    /\ pc = "c31"
    /\ \E res \in {checkAmong(s_solver.assertions, Grids)} :
           /\ s_solver' = [s_solver EXCEPT !.status = res.r]
           /\ IF res.r = "sat"
              THEN \E m \in res.ms :
                    /\ out' = [cell |-> "c31", lines |-> GridLines(m)]
                    /\ pc' = "done"
              ELSE /\ out' = NoOutput
                   /\ pc' = "AssertionError"
    /\ UNCHANGED <<ca_solver, mc_solver, nq_solver, heap, solutions, runtimes, li, lj>>

Next ==
    \/ Cell5 \/ Cell7 \/ Cell9 \/ Cell10
    \/ Cell13 \/ Cell15 \/ Cell17 \/ Cell18
    \/ Cell21 \/ Cell22 \/ Cell22For
    \/ Cell25 \/ Cell26 \/ Cell28 \/ Cell28For \/ Cell30 \/ Cell31

Spec == Init /\ [][Next]_vars

(***************************************************************************)
(* N-Queens: what the notebook asks of nqueens(N).                         *)
(***************************************************************************)
\* a places N queens on the N x N board, the queen of column i on row
\* a[Qi], no two on one row or one diagonal
IsPlacement(a, N) ==
    LET qs == queens(N)
    IN  /\ \A i \in 1..N : a[qs[i]] \in 0..(N - 1)
        /\ \A i \in 1..N : \A j \in 1..N :
              i < j => /\ a[qs[i]] # a[qs[j]]
                       /\ Abs(a[qs[i]] - a[qs[j]]) # j - i

\* the placements of queens on the first k columns of the N x N board
RECURSIVE Place(_, _)
Place(N, k) ==
    IF k = 0 THEN {<<>>}
    ELSE UNION {{Append(p, r) :
                    r \in {r \in 0..(N - 1) :
                            \A i \in 1..(k - 1) :
                                p[i] # r /\ Abs(p[i] - r) # k - i}} :
                p \in Place(N, k - 1)}

Placements(N) ==
    {[y \in {queens(N)[i] : i \in 1..N} |-> p[Pos(queens(N), y)]] : p \in Place(N, N)}

\* C1: for every N the benchmark passes to nqueens, the assignments that
\* satisfy the assertions of the solver nqueens(N) returned are exactly the
\* placements of N queens on the N x N board with no two queens on one row
\* or one diagonal.
C1_NQueensConstraintsExact ==
    \A k \in DOMAIN solutions :
        /\ \A m \in Models(Deref(solutions[k]).assertions, queens(sizes[k])) :
                IsPlacement(m, sizes[k])
        /\ \A a \in Placements(sizes[k]) :
                HoldsAll(Deref(solutions[k]).assertions, a)

\* C2: for each N of sizes the solver finds a solution: check() on the
\* solver of nqueens(N) answers sat.
C2_EverySizeSolved ==
    /\ Deref(nq_solver).status \in {"unbound", "sat"}
    /\ \A k \in DOMAIN solutions : Deref(solutions[k]).status = "sat"

\* C3: at each of the four check() sites, an answer other than sat fails
\* the assert and stops the cell: the run is at AssertionError, and the
\* solver was not appended to solutions nor its runtime recorded.
C3_NotSatStopsTheCell ==
    \A s \in {ca_solver, mc_solver, Deref(nq_solver), s_solver} :
        s.status \in {"unsat", "unknown"} =>
            /\ pc = "AssertionError"
            /\ \A k \in DOMAIN solutions : Deref(solutions[k]) # s
            /\ Len(runtimes) = Len(solutions)

(***************************************************************************)
(* Cryptarithmetic: the puzzle TWO + TWO = FOUR.                           *)
(***************************************************************************)
LetterSet == {"F", "O", "R", "T", "U", "W"}

IsTwoTwoFour(a) ==
    /\ \A x \in LetterSet : a[x] \in 0..9
    /\ a["T"] # 0
    /\ a["F"] # 0
    /\ (100 * a["T"] + 10 * a["W"] + a["O"]) + (100 * a["T"] + 10 * a["W"] + a["O"])
            = 1000 * a["F"] + 100 * a["O"] + 10 * a["U"] + a["R"]
    /\ \A x \in LetterSet : \A y \in LetterSet : x # y => a[x] # a[y]

\* the solutions of the puzzle with digits in D
TwoTwoFour(D) == {a \in [LetterSet -> D] : IsTwoTwoFour(a)}

\* the cells before the check cell of the cryptarithmetic section
BeforeCaCheck == {"c5", "c7", "c9"}

\* C4: once the cryptarithmetic cells have run, the assignments that
\* satisfy the assertions of ca_solver are exactly the solutions of
\* TWO + TWO = FOUR (digits 0..9, pairwise distinct, T and F not 0), and
\* no later cell changes those assertions.
C4_CryptarithmeticExact ==
    /\ [](pc = "c10" =>
            Models(ca_solver.assertions, Letters) = TwoTwoFour(0..9))
    /\ [][pc \notin BeforeCaCheck =>
            ca_solver'.assertions = ca_solver.assertions]_vars

\* the solution given in the text of the notebook: 938 + 938 = 1876
CaExample == [F |-> 1, O |-> 8, R |-> 6, T |-> 9, U |-> 7, W |-> 3]

\* the solution in the recorded output of the check cell: 846 + 846 = 1692
CaRecorded == [F |-> 1, O |-> 6, U |-> 9, R |-> 2, T |-> 8, W |-> 4]

C4_Witness ==
    /\ pc = "c10"
    /\ CaExample \in Models(ca_solver.assertions, Letters)

(***************************************************************************)
(* Map coloring: the map of Australia.                                     *)
(***************************************************************************)
RegionSet == {"WA", "SA", "NT", "Q", "NSW", "V", "T"}

Borders ==
    {<<"WA", "NT">>, <<"WA", "SA">>, <<"NT", "SA">>, <<"NT", "Q">>, <<"SA", "Q">>,
     <<"SA", "NSW">>, <<"SA", "V">>, <<"Q", "NSW">>, <<"NSW", "V">>}

Colourings ==
    {a \in [RegionSet -> {0, 1, 2}] : \A e \in Borders : a[e[1]] # a[e[2]]}

BeforeMcCheck == {"c5", "c7", "c9", "c10", "c13", "c15", "c17"}

\* C5: once the map-coloring cells have run, the assignments that satisfy
\* the assertions of mc_solver are exactly the colourings of the seven
\* regions with colours 0, 1, 2 in which no two bordering regions share a
\* colour, and no later cell changes those assertions.
C5_MapColoringExact ==
    /\ [](pc = "c18" => Models(mc_solver.assertions, Regions) = Colourings)
    /\ [][pc \notin BeforeMcCheck =>
            mc_solver'.assertions = mc_solver.assertions]_vars

\* the colouring in the recorded output of the check cell
C5_Witness ==
    /\ pc = "c21"
    /\ mc_solver.status = "sat"
    /\ out.cell = "c18"
    /\ out.lines = << <<"WA", "Green">>, <<"NT", "Red">>, <<"SA", "Blue">>,
                      <<"Q", "Green">>, <<"NSW", "Red">>, <<"V", "Green">>,
                      <<"T", "Blue">> >>

(***************************************************************************)
(* Sudoku.                                                                 *)
(***************************************************************************)
SameUnit(x, y) ==
    \/ RowOf(x) = RowOf(y)
    \/ ColOf(x) = ColOf(y)
    \/ (RowOf(x) \div 3 = RowOf(y) \div 3 /\ ColOf(x) \div 3 = ColOf(y) \div 3)

\* every box in 1..9, and the boxes of a row, of a column and of a 3x3
\* block pairwise distinct
SudokuRules(g) ==
    /\ \A x \in BoxNames : g[x] \in 1..9
    /\ \A x \in BoxNames : \A y \in BoxNames :
            (x # y /\ SameUnit(x, y)) => g[x] # g[y]

\* C6: when the general-constraint cell has run, every grid that
\* satisfies the assertions of s_solver has every box in 1..9 and the
\* boxes of each row, each column and each 3x3 block pairwise distinct.
C6_GeneralConstraints ==
    (pc = "c30" /\ li = 0 /\ lj = 0) =>
        \A g \in Grids : HoldsAll(s_solver.assertions, g) => SudokuRules(g)

\* the recorded grid satisfies the general constraints, and so does a
\* grid that is not the recorded one
C6_Witness ==
    /\ pc = "c30" /\ li = 0 /\ lj = 0
    /\ HoldsAll(s_solver.assertions, Recorded)
    /\ \E g \in TwoRows : g # Recorded /\ HoldsAll(s_solver.assertions, g)

\* the assertions the puzzle-specific loop added, and the others
HintsOf(s) == SelectSeq(s.assertions, LAMBDA c : c.op = "eq")

GeneralOf(s) == SelectSeq(s.assertions, LAMBDA c : c.op # "eq")

Given == {rc \in (0..8) \X (0..8) : BoardAt(rc[1], rc[2]) # 0}

AgreesWithBoard(g) ==
    \A rc \in Given : g[boxes(rc[1], rc[2])] = BoardAt(rc[1], rc[2])

\* the cells the puzzle-specific loop has been through
Visited ==
    IF pc = "c30"
    THEN {rc \in (0..8) \X (0..8) : rc[1] < li \/ (rc[1] = li /\ rc[2] < lj)}
    ELSE (0..8) \X (0..8)

\* C7: the puzzle-specific loop adds boxes[i][j] == board[i][j] for
\* exactly the cells with board[i][j] != 0: at every turn the equalities
\* in s_solver are those of the non-zero cells the loop has been through,
\* one each, and when the loop has run a grid satisfies s_solver exactly
\* when it satisfies the general constraints and agrees with the board on
\* the non-zero cells.
C7_HintsExactlyNonZero ==
    /\ pc \in {"c30", "c31", "done"} =>
        /\ {HintsOf(s_solver)[i] : i \in DOMAIN HintsOf(s_solver)}
                = {Eq(boxes(rc[1], rc[2]), BoardAt(rc[1], rc[2])) :
                        rc \in Given \cap Visited}
        /\ Len(HintsOf(s_solver)) = Cardinality(Given \cap Visited)
    /\ pc \in {"c31", "done"} =>
        \A g \in Grids :
            HoldsAll(s_solver.assertions, g)
                <=> (HoldsAll(GeneralOf(s_solver), g) /\ AgreesWithBoard(g))

\* the recorded grid satisfies s_solver, and a grid that satisfies the
\* general constraints but not the hints does not
C7_Witness ==
    /\ pc = "c31"
    /\ HoldsAll(s_solver.assertions, Recorded)
    /\ \E g \in TwoRows :
            HoldsAll(GeneralOf(s_solver), g) /\ ~HoldsAll(s_solver.assertions, g)

\* C8: the three asserts of the form check() == sat pass: the run never
\* stops at an AssertionError, no check of ca_solver, mc_solver or s_solver
\* answers anything but sat, and at the end each of the three has answered
\* sat.
C8_ThreeAssertsPass ==
    /\ pc # "AssertionError"
    /\ \A s \in {ca_solver, mc_solver, s_solver} :
            s.status \in {"unbound", "new", "sat"}
    /\ pc = "done" =>
            \A s \in {ca_solver, mc_solver, s_solver} : s.status = "sat"

C8_Witness ==
    /\ pc = "done"
    /\ ca_solver.status = "sat" /\ mc_solver.status = "sat" /\ s_solver.status = "sat"
    /\ out.lines = RecordedGrid

\* C9: the solution of the text, 938 + 938 = 1876, and the solution of the
\* recorded output, 846 + 846 = 1692, each satisfy every assertion the
\* cells register in ca_solver.
C9_ExamplesSatisfy ==
    pc \notin BeforeCaCheck =>
        /\ HoldsAll(ca_solver.assertions, CaExample)
        /\ HoldsAll(ca_solver.assertions, CaRecorded)

\* the check cell has printed the recorded solution
C9_Witness ==
    /\ pc = "c13"
    /\ out.lines = << <<8, 4, 6>>, <<8, 4, 6>>, <<1, 6, 9, 2>> >>
    /\ HoldsAll(ca_solver.assertions, CaExample)

\* C10: for every solver, no assertion is added once check() has answered,
\* and a cell prints from model() of a solver only when the check() of
\* that solver has answered sat; the solvers kept in solutions stay as
\* they were checked.
C10_AddCheckModelOrder ==
    [][/\ \A v \in {<<ca_solver, ca_solver'>>, <<mc_solver, mc_solver'>>,
                    <<s_solver, s_solver'>>} :
            v[1].status \in {"sat", "unsat"} => v[2].assertions = v[1].assertions
       /\ \A k \in DOMAIN solutions :
            /\ k \in DOMAIN solutions'
            /\ Deref(solutions[k])' = Deref(solutions[k])
       /\ out'.cell = "c10" => ca_solver'.status = "sat"
       /\ out'.cell = "c18" => mc_solver'.status = "sat"
       /\ out'.cell = "c31" => s_solver'.status = "sat"]_vars

C10_Witness ==
    /\ pc = "c26"
    /\ ca_solver.status = "sat" /\ mc_solver.status = "sat"
    /\ Len(solutions) = Len(sizes)
    /\ s_solver.status = "new"

(***************************************************************************)
(* The four problems and their solvers.                                    *)
(***************************************************************************)
\* the positions of the run in the cells of each problem
CaCells == {"c5", "c7", "c9", "c10"}

McCells == {"c13", "c15", "c17", "c18"}

NqCells == {"c21", "c22", "c22_for"}

SudokuCells == {"c25", "c26", "c28", "c28_for", "c30", "c31"}

\* the assertions of s that mention the name x
About(s, x) ==
    {s.assertions[i] : i \in {j \in DOMAIN s.assertions : Mentions(s.assertions[j], x)}}

\* C11: the problems share nothing but each its own solver.  A cell changes
\* only the solver of its problem; a call of nqueens leaves the solvers of
\* the calls before as they were, and the entries of solutions are
\* distinct instances.  The name T, bound again in the map-coloring cells,
\* is in mc_solver under its range 0..2 alone, so that T = 0 is a
\* coloring, and stays in ca_solver under the range 0..9, T != 0 and the
\* constraints of the puzzle, whose solutions stay what they were.
C11_OwnSolverOnly ==
    /\ [][/\ pc \notin CaCells => ca_solver' = ca_solver
          /\ pc \notin McCells => mc_solver' = mc_solver
          /\ pc \notin SudokuCells => s_solver' = s_solver
          /\ pc \notin NqCells =>
                (heap' = heap /\ nq_solver' = nq_solver /\ solutions' = solutions)
          /\ \A k \in DOMAIN heap : k \in DOMAIN heap' /\ heap'[k] = heap[k]]_vars
    /\ [](\A i \in DOMAIN solutions : \A j \in DOMAIN solutions :
                i # j => solutions[i] # solutions[j])
    /\ [](About(mc_solver, "T") \subseteq {Ge("T", 0), Le("T", 2)})
    /\ [](pc = "c18" =>
            /\ \E m \in Models(mc_solver.assertions, Regions) : m["T"] = 0
            /\ Le("T", 9) \in About(ca_solver, "T")
            /\ Ne("T", 0) \in About(ca_solver, "T")
            /\ Models(ca_solver.assertions, Letters) = TwoTwoFour(0..9))

\* the four problems have run their adds: T is in both solvers under its
\* two ranges, and solutions holds the solver of each call of nqueens
C11_Witness ==
    /\ pc = "c25"
    /\ Le("T", 2) \in About(mc_solver, "T")
    /\ Le("T", 9) \in About(ca_solver, "T")
    /\ Len(solutions) = Len(sizes)
    /\ Len(heap) = Len(sizes)

(***************************************************************************)
(* The ranges of the integer variables.                                    *)
(***************************************************************************)
\* the lower and the upper bounds the solver s holds for the name x
LowerBounds(s, x) == {c.n : c \in {d \in About(s, x) : d.op = "ge"}}

UpperBounds(s, x) == {c.n : c \in {d \in About(s, x) : d.op = "le"}}

\* s holds a bound of each kind for each of names
Bounded(s, names) ==
    \A i \in DOMAIN names :
        LowerBounds(s, names[i]) # {} /\ UpperBounds(s, names[i]) # {}

\* every assignment of ms takes each of names between the bounds s holds
\* for it
Within(s, names, ms) ==
    \A i \in DOMAIN names :
        \A range \in {Greatest(LowerBounds(s, names[i]))
                            ..Least(UpperBounds(s, names[i]))} :
            \A m \in ms : m[names[i]] \in range

\* C12: when check() is called on a solver, the solver holds a lower and
\* an upper bound for every variable of its problem (the six letters, the
\* seven regions, the N queens of the call of nqueens at hand, the 81
\* boxes), and every assignment that satisfies it takes each variable
\* between them.
C12_BoundsBeforeCheck ==
    /\ pc = "c10" =>
        /\ Bounded(ca_solver, Letters)
        /\ Within(ca_solver, Letters, Models(ca_solver.assertions, Letters))
    /\ pc = "c18" =>
        /\ Bounded(mc_solver, Regions)
        /\ Within(mc_solver, Regions, Models(mc_solver.assertions, Regions))
    /\ (pc = "c22_for" /\ nq_solver # 0) =>
        /\ Bounded(Deref(nq_solver), queens(sizes[nq_solver]))
        /\ Within(Deref(nq_solver), queens(sizes[nq_solver]),
                  check(Deref(nq_solver).assertions, queens(sizes[nq_solver])).ms)
    /\ pc = "c31" =>
        /\ Bounded(s_solver, AllBoxes)
        /\ Within(s_solver, AllBoxes,
                  {g \in Grids : HoldsAll(s_solver.assertions, g)})

\* the sudoku solver is about to be checked with its 81 ranges, after the
\* three other problems were checked with theirs
C12_Witness ==
    /\ pc = "c31"
    /\ Bounded(s_solver, AllBoxes)
    /\ ca_solver.status = "sat" /\ Bounded(ca_solver, Letters)
    /\ mc_solver.status = "sat" /\ Bounded(mc_solver, Regions)
    /\ Len(heap) = Len(sizes) /\ Bounded(heap[Len(heap)], queens(sizes[Len(sizes)]))
    /\ HoldsAll(s_solver.assertions, Recorded)

====
